---- MODULE Spec2Model ----
(***************************************************************************)
(* Tech Watch Bot (scripts/tech-watch-bot): the ingestion pipeline of      *)
(* main.py, the rate-limited summarizer of src/analyzer.py and the store   *)
(* operations of src/db.py, as one state machine.                          *)
(*                                                                         *)
(* A run of main() is one process.  The store (tech_watch_articles,        *)
(* tech_watch_digests) and the wall clock outlive the process; the module  *)
(* global _last_request_time does not.  One owner (USER_ID) is modelled.   *)
(* External collaborators (feed, scraper, Gemini, Supabase) answer         *)
(* nondeterministically with the outcomes the code distinguishes.          *)
(***************************************************************************)
EXTENDS Integers, Sequences, FiniteSets, TLC

----------------------------------------------------------------------------
\* Bounds of the model.
MaxRuns == 2
MaxFeedLen == 2
MaxDate == 2
MaxDirectCalls == 3
MaxDirectId == 2
MaxStepDelay == 7
MaxCallDuration == 1
MaxOvershoot == 1
StartTime == 100
RunPeriod == 1000
MaxTokens == 6

Urls == {"a", "b"}
Dates == 1..MaxDate

\* Program constants (analyzer.py).
REQUESTS_PER_MINUTE == 10
MIN_DELAY_BETWEEN_REQUESTS == 60 \div REQUESTS_PER_MINUTE
MAX_RETRIES == 3
INITIAL_BACKOFF == 10

\* Seconds in a calendar day: period_start is dateT00:00:00Z and period_end
\* is dateT23:59:59Z.
DAY == 86400

\* Python's None, for the values that are text-or-None.
NoneVal == "None"
\* The text analyze_article returns when GEMINI_API_KEY is not set.
NO_KEY_ERROR == "Error: No GEMINI_API_KEY configured."
\* A response text of the model.
TEXT == "text"

----------------------------------------------------------------------------
\* Helpers.
SeqToSet(s) == {s[i] : i \in 1..Len(s)}

NoDuplicates(s) == \A i, j \in 1..Len(s) : s[i] = s[j] => i = j

Min(S) == CHOOSE x \in S : \A y \in S : x <= y

RECURSIVE SortedSeq(_)
SortedSeq(S) == IF S = {} THEN <<>> ELSE <<Min(S)>> \o SortedSeq(S \ {Min(S)})

SeqsUpTo(S, n) == UNION {[1..k -> S] : k \in 0..n}

----------------------------------------------------------------------------
VARIABLES
    \* the store
    articles,           \* rows of tech_watch_articles
    digests,            \* rows of tech_watch_digests
    nextArticleId,      \* the store's identity generator for articles
    nextDigestId,       \* the store's identity generator for digests
    \* the process running main()
    pc,                 \* position of the process
    env,                \* its environment variables (present or not)
    exitStatus,         \* exit status of the last finished run
    today,              \* main.today
    new_articles,       \* main.new_articles (links)
    idx,                \* position of the for loop in new_articles
    content,            \* main.content of the current item
    comments,           \* main.comments of the current item
    analysis,           \* main.analysis of the current item
    attempt,            \* _call_gemini_with_retry.attempt
    processed_articles, \* main.processed_articles
    article_ids,        \* main.article_ids
    \* time
    now,                \* the wall clock, in seconds
    last_request_time,  \* analyzer._last_request_time
    \* history
    runNo,              \* runs started
    directCalls,        \* save_digest invocations made outside a run
    runLog,             \* per run: the feed, the date, the ids of the rows inserted
    cur,                \* the item of the current loop iteration: what was done
    callLog,            \* external summarizer calls of the current process
    anLog,              \* the current analyze_article invocation
    sdLog,              \* save_digest invocations
    \* extract_tags_from_analysis, called on its own
    tag_input,          \* the text it is given
    tag_output          \* whether it has returned, and the tags returned

storeVars == <<articles, digests, nextArticleId, nextDigestId>>
procVars == <<pc, env, exitStatus, today, new_articles, idx, content, comments,
              analysis, attempt, processed_articles, article_ids>>
timeVars == <<now, last_request_time>>
histVars == <<runNo, directCalls, runLog, cur, callLog, anLog, sdLog>>
tagVars == <<tag_input, tag_output>>
vars == <<storeVars, procVars, timeVars, histVars, tagVars>>

----------------------------------------------------------------------------
\* db.py: get_supabase_client and get_user_id raise ValueError when a
\* variable is missing.
ConfigError(e) == ~e.supabase_url \/ ~e.supabase_key \/ ~e.user_id

\* db.py get_processed_urls: the urls of the owner's rows, [] on any error.
get_processed_urls(outcome) ==
    IF outcome = "error" THEN {} ELSE {r.url : r \in articles}

\* rss.py fetch_hn_feed: the entries of the feed, [] on any error.
fetch_hn_feed(outcome, entries) ==
    IF outcome = "error" THEN <<>> ELSE entries

FilterNone(arts, processed_urls) == arts

\* main.py line 53: the list comprehension keeps order and repetitions.
FilterNew(arts, processed_urls) ==
    SelectSeq(arts, LAMBDA link : link \notin processed_urls)

\* scraper.py clean_html_content: None unless a non-empty text was extracted.
clean_html_content(outcome) ==
    IF outcome = "text" THEN TEXT ELSE NoneVal

ContentOutcomes == {"text", "download_failed", "extract_empty", "exception"}

\* main.py line 71: `not content` (None or the empty string).
ContentMissingEmptyOnly(c) == c = ""
ContentMissing(c) == c = NoneVal \/ c = ""

\* scraper.py fetch_hn_comments: the remarks, [] on any error; only their
\* number matters here.
fetch_hn_comments(outcome) ==
    IF outcome = "some" THEN 1 ELSE 0

CommentOutcomes == {"some", "none", "error"}

SkipsWithoutCommentsYes(n) == n = 0

\* main.py lines 77-81: the branch on missing comments only logs a
\* warning; it does not leave the iteration.
SkipsWithoutComments(n) == FALSE

\* analyzer.py lines 87 and 99.
BackoffConstant(a) == INITIAL_BACKOFF
Backoff(a) == INITIAL_BACKOFF * (2 ^ a)

\* analyzer.py lines 85 and 97: the failure classes that are retried.
RetryableAny(outcome) == outcome # "ok"
Retryable(outcome) == outcome \in {"quota_exceeded", "rate_limited"}

CallOutcomes == {"ok", "quota_exceeded", "rate_limited", "other"}

RetriesWhateverOutcome(outcome, a) == a < MAX_RETRIES - 1

\* analyzer.py lines 79-110: the loop goes to another attempt only after a
\* retryable failure that is not the last attempt's; a response is
\* returned (line 83) and any other failure raised.
Retries(outcome, a) == Retryable(outcome) /\ a < MAX_RETRIES - 1

\* analyzer.py lines 68-73: the sleep of _wait_for_rate_limit.
SleepTimeElapsed(t, last) ==
    IF t - last < MIN_DELAY_BETWEEN_REQUESTS THEN t - last ELSE 0
SleepTime(t, last) ==
    IF t - last < MIN_DELAY_BETWEEN_REQUESTS
    THEN MIN_DELAY_BETWEEN_REQUESTS - (t - last)
    ELSE 0

\* db.py lines 110-111.
PeriodStart(date) == date * DAY
PeriodEnd(date) == date * DAY + (DAY - 1)

\* db.py lines 114-119: the rows the select returns.
ExistingStrict(ds, date) ==
    {r \in ds : r.period_start > PeriodStart(date)
                /\ r.period_end < PeriodEnd(date)}
Existing(ds, date) ==
    {r \in ds : r.period_start >= PeriodStart(date)
                /\ r.period_end <= PeriodEnd(date)}

\* existing.data[0]: the store returns the rows in insertion order.
FirstRow(rows) == CHOOSE r \in rows : \A q \in rows : r.id <= q.id

\* db.py line 124: list(set(existing_ids + article_ids)).  The order of the
\* list is the set's iteration order; ascending order stands for it.
MergeIdsAppend(existing_ids, ids) == existing_ids \o ids
MergeIds(existing_ids, ids) == SortedSeq(SeqToSet(existing_ids \o ids))

\* db.py lines 130 and 145: `key_topics or []`.
KeyTopicsOrEmpty(kt) == IF kt.given THEN kt.topics ELSE <<>>

NoKeyTopics == [given |-> FALSE, topics |-> <<>>]

DigestOutcomes == {"ok", "select_error", "write_error"}

UpdatedSummaryAppended(old, summary) == old \o summary

\* db.py line 128: the update writes the summary of the call.
UpdatedSummary(old, summary) == summary

\* db.py save_digest: the digest table after the call.
DigestsAfter(ds, nid, date, summary, ids, kt, outcome) ==
    IF outcome # "ok" THEN ds
    ELSE IF Existing(ds, date) # {}
    THEN LET row == FirstRow(Existing(ds, date))
         IN  (ds \ {row}) \cup
             {[row EXCEPT !.summary = UpdatedSummary(row.summary, summary),
                          !.article_ids = MergeIds(row.article_ids, ids),
                          !.key_topics = KeyTopicsOrEmpty(kt)]}
    ELSE ds \cup {[id |-> nid,
                   period_start |-> PeriodStart(date),
                   period_end |-> PeriodEnd(date),
                   summary |-> summary,
                   article_ids |-> ids,
                   key_topics |-> KeyTopicsOrEmpty(kt)]}

\* The article ids stored for a date, <<>> when there is no row.
StoredIds(ds, date) ==
    IF Existing(ds, date) = {} THEN <<>>
    ELSE FirstRow(Existing(ds, date)).article_ids

\* The key topics stored for a date, <<>> when there is no row.
StoredTopics(ds, date) ==
    IF Existing(ds, date) = {} THEN <<>>
    ELSE FirstRow(Existing(ds, date)).key_topics

\* db.py build_digest_summary: one block per article, in order.  The join
\* raises TypeError when an analysis is None.
SummaryRaises(arts) == \E i \in 1..Len(arts) : arts[i].analysis = NoneVal
build_digest_summary(arts) == arts

\* main.py line 66: the for loop goes on to the next item or ends.
AfterItem(i) == IF i + 1 > Len(new_articles) THEN "aggregate" ELSE "item"

NoCalls == [n |-> 0, prev |-> 0, last |-> 0, returned |-> 0, stamp |-> 0]
\* No item yet: n is the item's position in new_articles, article_id 0 is
\* None.
NoItem == [n |-> 0, link |-> "", content |-> NoneVal, comments |-> 0,
           analyzed |-> FALSE, analysis |-> NoneVal, save_calls |-> 0,
           article_id |-> 0]
NoAttempts == [calls |-> 0, outcomes |-> <<>>, backoffs |-> <<>>]

FullEnv == [supabase_url |-> TRUE, supabase_key |-> TRUE, user_id |-> TRUE,
            gemini_api_key |-> TRUE]
\* Every variable set, or exactly one of them missing.
Envs == {FullEnv} \cup {[FullEnv EXCEPT ![v] = FALSE] : v \in DOMAIN FullEnv}

\* The runs are scheduled: a run starts RunPeriod seconds after the previous
\* one started, which is after the previous one ended.
RunStartTime(n) == StartTime + (n - 1) * RunPeriod

Stopped == pc \in {"idle", "done", "exit1", "crashed"}

\* analyzer.py extract_tags_from_analysis (lines 34-62).  A text is a
\* sequence of characters, in which MARKER stands for one match of
\* "Tags?\s*:" and NL for the line feed.  The texts tried hold at most one
\* marker, so that no tag holds one (it would count for one character).
MARKER == "Tags:"
NL == "nl"
Whitespace == {" ", NL}
QuoteChars == {"'", "\""}
\* analyzer.py line 56: the slice [:5].
MAX_TAGS == 5

\* The first position from i on whose character is not in S (SkipWhile) or
\* is in S (SkipUntil); Len(s) + 1 when there is none.
RECURSIVE SkipWhile(_, _, _)
SkipWhile(s, i, S) ==
    IF i <= Len(s) /\ s[i] \in S THEN SkipWhile(s, i + 1, S) ELSE i

RECURSIVE SkipUntil(_, _, _)
SkipUntil(s, i, S) ==
    IF i <= Len(s) /\ s[i] \notin S THEN SkipUntil(s, i + 1, S) ELSE i

\* The last position down from i whose character is not in S, 0 when
\* there is none.
RECURSIVE SkipBack(_, _, _)
SkipBack(s, i, S) ==
    IF i >= 1 /\ s[i] \in S THEN SkipBack(s, i - 1, S) ELSE i

NoMatch == [found |-> FALSE, group |-> <<>>]

\* analyzer.py line 45, matched from the marker at position m:
\* \s*\[([^\]]+)\] is whitespace, an opening bracket, one or more
\* characters other than the closing bracket, the closing bracket.
BracketGroup(s, m) ==
    LET j == SkipWhile(s, m + 1, Whitespace)
        k == SkipUntil(s, j + 1, {"]"})
    IN  IF j <= Len(s) /\ s[j] = "[" /\ k > j + 1 /\ k <= Len(s)
        THEN [found |-> TRUE, group |-> SubSeq(s, j + 1, k - 1)]
        ELSE NoMatch

\* analyzer.py line 46, matched from the marker at position m:
\* \s*([^\n]+) takes as much whitespace as leaves one character other than
\* the line feed, then every character up to the line feed.
LineGroup(s, m) ==
    LET j == SkipWhile(s, m + 1, Whitespace)
        starts == {p \in (m + 1)..j : p <= Len(s) /\ s[p] # NL}
        p == CHOOSE x \in starts : \A y \in starts : y <= x
    IN  IF starts = {} THEN NoMatch
        ELSE [found |-> TRUE,
              group |-> SubSeq(s, p, SkipUntil(s, p, {NL}) - 1)]

\* re.search (line 50) with each pattern: the match at the leftmost marker
\* that has one.
SearchBracket(s) ==
    LET ms == {m \in 1..Len(s) : s[m] = MARKER /\ BracketGroup(s, m).found}
    IN  IF ms = {} THEN NoMatch ELSE BracketGroup(s, Min(ms))

SearchLine(s) ==
    LET ms == {m \in 1..Len(s) : s[m] = MARKER /\ LineGroup(s, m).found}
    IN  IF ms = {} THEN NoMatch ELSE LineGroup(s, Min(ms))

\* str.split(sep): the pieces between the separators, [''] for ''.
RECURSIVE Split(_, _)
Split(s, sep) ==
    LET k == SkipUntil(s, 1, {sep})
    IN  IF k > Len(s) THEN <<s>>
        ELSE <<SubSeq(s, 1, k - 1)>> \o Split(SubSeq(s, k + 1, Len(s)), sep)

\* str.strip(chars): the leading and trailing characters of S removed.
Strip(t, S) == SubSeq(t, SkipWhile(t, 1, S), SkipBack(t, Len(t), S))

\* analyzer.py line 54: tag.strip().strip('"\'').
CleanTag(tag) == Strip(Strip(tag, Whitespace), QuoteChars)

\* analyzer.py lines 52-56: the tags of a matched list.
TagsOf(group) ==
    LET parts == Split(group, ",")
        cleaned == [i \in 1..Len(parts) |-> CleanTag(parts[i])]
        kept == SelectSeq(cleaned, LAMBDA t : t # <<>> /\ Len(t) > 1)
    IN  SubSeq(kept, 1, Min({MAX_TAGS, Len(kept)}))

\* analyzer.py lines 34-62: the tags of the first pattern that gives any.
extract_tags_from_analysis(analysis_text) ==
    IF analysis_text = <<>> THEN <<>>
    ELSE LET m1 == SearchBracket(analysis_text)
             m2 == SearchLine(analysis_text)
             t1 == IF m1.found THEN TagsOf(m1.group) ELSE <<>>
             t2 == IF m2.found THEN TagsOf(m2.group) ELSE <<>>
         IN  IF t1 # <<>> THEN t1 ELSE t2

----------------------------------------------------------------------------
PipelineInit ==
    /\ articles = {}
    /\ digests = {}
    /\ nextArticleId = 1
    /\ nextDigestId = 1
    /\ pc = "idle"
    /\ env = FullEnv
    /\ exitStatus = 0
    /\ today = 1
    /\ new_articles = <<>>
    /\ idx = 1
    /\ content = NoneVal
    /\ comments = 0
    /\ analysis = NoneVal
    /\ attempt = 0
    /\ processed_articles = <<>>
    /\ article_ids = <<>>
    /\ now = StartTime
    /\ last_request_time = 0
    /\ runNo = 0
    /\ directCalls = 0
    /\ runLog = <<>>
    /\ cur = NoItem
    /\ callLog = NoCalls
    /\ anLog = NoAttempts
    /\ sdLog = <<>>

NotExtracted == [done |-> FALSE, tags |-> <<>>]

Init ==
    /\ PipelineInit
    /\ tag_input = <<>>
    /\ tag_output = NotExtracted

----------------------------------------------------------------------------
\* The process ends: its memory is gone.
ProcessExit ==
    /\ new_articles' = <<>>
    /\ idx' = 1
    /\ content' = NoneVal
    /\ comments' = 0
    /\ analysis' = NoneVal
    /\ attempt' = 0
    /\ processed_articles' = <<>>
    /\ article_ids' = <<>>
    /\ last_request_time' = 0
    /\ cur' = NoItem
    /\ callLog' = NoCalls
    /\ anLog' = NoAttempts

\* main.py lines 33-63: configuration, the ledger query, the feed and the
\* filter.  A run is a new process: _last_request_time starts at 0.
Start(e, entries, feedOutcome, urlsOutcome, date) ==
    /\ Stopped
    /\ runNo < MaxRuns
    /\ date >= today
    /\ runNo' = runNo + 1
    /\ env' = e
    /\ last_request_time' = 0
    /\ callLog' = NoCalls
    /\ anLog' = NoAttempts
    /\ cur' = NoItem
    /\ processed_articles' = <<>>
    /\ article_ids' = <<>>
    /\ idx' = 1
    /\ attempt' = 0
    /\ content' = NoneVal
    /\ comments' = 0
    /\ analysis' = NoneVal
    /\ now' = RunStartTime(runNo + 1)
    /\ UNCHANGED <<storeVars, directCalls, sdLog>>
    /\ IF ConfigError(e)
       THEN /\ pc' = "exit1"
            /\ exitStatus' = 1
            /\ new_articles' = <<>>
            /\ runLog' = Append(runLog, [feed |-> <<>>, started |-> FALSE,
                                         fetched |-> FALSE, known |-> {},
                                         date |-> today, inserted |-> <<>>])
            /\ UNCHANGED today
       ELSE LET processed_urls == get_processed_urls(urlsOutcome)
                arts == fetch_hn_feed(feedOutcome, entries)
                fresh == FilterNew(arts, processed_urls)
            IN  /\ new_articles' = fresh
                /\ today' = date
                /\ exitStatus' = 0
                /\ pc' = IF fresh = <<>> THEN "done" ELSE "item"
                /\ runLog' = Append(runLog, [feed |-> entries,
                                             started |-> TRUE,
                                             fetched |-> (feedOutcome = "ok"),
                                             known |-> processed_urls,
                                             date |-> date,
                                             inserted |-> <<>>])
    /\ UNCHANGED tagVars

\* main.py lines 66-81: content and comments of the next item; an item
\* without content is skipped.
Enrich(contentOutcome, commentsOutcome, delay) ==
    /\ pc = "item"
    /\ now' = now + delay
    /\ LET c == clean_html_content(contentOutcome)
           entry == [NoItem EXCEPT !.n = idx, !.link = new_articles[idx],
                                   !.content = c]
       IN  /\ content' = c
           /\ IF ContentMissing(c)
              THEN /\ idx' = idx + 1
                   /\ pc' = AfterItem(idx)
                   /\ cur' = entry
                   /\ UNCHANGED comments
              ELSE /\ comments' = fetch_hn_comments(commentsOutcome)
                   /\ cur' = [entry EXCEPT !.comments = comments']
                   /\ IF SkipsWithoutComments(comments')
                      THEN /\ idx' = idx + 1
                           /\ pc' = AfterItem(idx)
                      ELSE /\ pc' = "analyze"
                           /\ UNCHANGED idx
    /\ UNCHANGED <<storeVars, env, exitStatus, today, new_articles, analysis,
                   attempt, processed_articles, article_ids,
                   last_request_time, runNo, directCalls, runLog, callLog,
                   anLog, sdLog>>
    /\ UNCHANGED tagVars


\* main.py line 84 and analyzer.py lines 117-150: analyze_article is
\* entered; without GEMINI_API_KEY it returns the error text.
AnalyzeEnter ==
    /\ pc = "analyze"
    /\ anLog' = NoAttempts
    /\ attempt' = 0
    /\ IF ~env.gemini_api_key
       THEN /\ analysis' = NO_KEY_ERROR
            /\ pc' = "save"
            /\ cur' = [cur EXCEPT !.analyzed = TRUE,
                                  !.analysis = NO_KEY_ERROR]
       ELSE /\ pc' = "wait"
            /\ cur' = [cur EXCEPT !.analyzed = TRUE]
            /\ UNCHANGED analysis
    /\ UNCHANGED <<storeVars, env, exitStatus, today, new_articles, idx,
                   content, comments, processed_articles, article_ids,
                   timeVars, runNo, directCalls, runLog, callLog, sdLog>>
    /\ UNCHANGED tagVars

RequestTimeBeforeSleep(t, woke) == t

\* analyzer.py line 74: _last_request_time is written with the time read
\* after the sleep, not with the one read at line 68 before it.
RequestTime(t, woke) == woke

\* analyzer.py lines 65-74 (_wait_for_rate_limit, called at line 81):
\* time.sleep sleeps at least the time asked for.
WaitForRateLimit(overshoot) ==
    /\ pc = "wait"
    /\ LET sleep_time == SleepTime(now, last_request_time)
           woke == IF sleep_time > 0 THEN now + sleep_time + overshoot
                   ELSE now
       IN  /\ now' = woke
           /\ last_request_time' = RequestTime(now, woke)
    /\ pc' = "call"
    /\ UNCHANGED <<storeVars, env, exitStatus, today, new_articles, idx,
                   content, comments, analysis, attempt, processed_articles,
                   article_ids, histVars>>
    /\ UNCHANGED tagVars

\* analyzer.py lines 82-114 and 150-164: one external call and what
\* _call_gemini_with_retry and analyze_article do with its outcome.
GenerateContent(outcome, duration, overshoot) ==
    /\ pc = "call"
    /\ callLog' = [n |-> callLog.n + 1, prev |-> callLog.last,
                   last |-> now, returned |-> now + duration,
                   stamp |-> last_request_time]
    /\ LET retry == Retries(outcome, attempt)
           result == IF outcome = "ok" THEN TEXT ELSE NoneVal
       IN  IF retry
           THEN /\ now' = now + duration + Backoff(attempt) + overshoot
                /\ attempt' = attempt + 1
                /\ pc' = "wait"
                /\ anLog' = [calls |-> anLog.calls + 1,
                             outcomes |-> Append(anLog.outcomes, outcome),
                             backoffs |-> Append(anLog.backoffs,
                                                 Backoff(attempt))]
                /\ UNCHANGED <<analysis, cur>>
           ELSE /\ now' = now + duration
                /\ analysis' = result
                /\ pc' = "save"
                /\ anLog' = [anLog EXCEPT !.calls = @ + 1,
                                !.outcomes = Append(@, outcome)]
                /\ cur' = [cur EXCEPT !.analysis = result]
                /\ UNCHANGED attempt
    /\ UNCHANGED <<storeVars, env, exitStatus, today, new_articles, idx,
                   content, comments, processed_articles, article_ids,
                   last_request_time, runNo, directCalls, runLog, sdLog>>
    /\ UNCHANGED tagVars

\* The run log with an insert of the current run added.
LogInsert(id) ==
    [runLog EXCEPT ![Len(runLog)] = [@ EXCEPT !.inserted = Append(@, id)]]

SaveOutcomes == {"ok", "empty", "error"}

\* db.py save_article (lines 53-94): the id of the inserted row, or None
\* (here 0) when the insert raises or returns no data.
save_article(outcome, id) == IF outcome = "ok" THEN id ELSE 0

HasArticleIdAlways(article_id) == TRUE

\* main.py line 98: "if article_id:".
HasArticleId(article_id) == article_id # 0

\* main.py lines 86-105 and db.py save_article: the row is inserted with
\* whatever analysis main holds; the item joins the lists of the digest
\* only when an id came back.
SaveArticle(outcome) ==
    /\ pc = "save"
    /\ LET article_id == save_article(outcome, nextArticleId)
       IN  /\ IF outcome = "ok"
              THEN /\ articles' = articles \cup
                          {[id |-> nextArticleId, url |-> new_articles[idx],
                            content |-> content, summary |-> analysis]}
                   /\ nextArticleId' = nextArticleId + 1
                   /\ runLog' = LogInsert(nextArticleId)
              ELSE UNCHANGED <<articles, nextArticleId, runLog>>
           /\ IF HasArticleId(article_id)
              THEN /\ article_ids' = Append(article_ids, article_id)
                   /\ processed_articles' = Append(processed_articles,
                          [url |-> new_articles[idx], analysis |-> analysis])
              ELSE UNCHANGED <<article_ids, processed_articles>>
           /\ cur' = [cur EXCEPT !.save_calls = @ + 1,
                                 !.article_id = article_id]
    /\ idx' = idx + 1
    /\ pc' = AfterItem(idx)
    /\ anLog' = NoAttempts
    /\ UNCHANGED <<digests, nextDigestId, env, exitStatus, today,
                   new_articles, content, comments, analysis, attempt,
                   timeVars, runNo, directCalls, callLog, sdLog>>
    /\ UNCHANGED tagVars

\* What a save_digest invocation did, for the log.
DigestCall(date, ids, kt, summary, outcome, in_run) ==
    [date |-> date, ids |-> ids, key_topics |-> kt, summary |-> summary,
     ok |-> (outcome = "ok"), in_run |-> in_run, run |-> runNo,
     found |-> (Existing(digests, date) # {}),
     before |-> StoredIds(digests, date),
     kt_before |-> StoredTopics(digests, date)]

\* db.py save_digest (lines 97-155) on the store.
save_digest(date, summary, ids, kt, outcome, in_run) ==
    /\ digests' = DigestsAfter(digests, nextDigestId, date, summary, ids, kt,
                               outcome)
    /\ nextDigestId' = IF outcome = "ok" /\ Existing(digests, date) = {}
                       THEN nextDigestId + 1 ELSE nextDigestId
    /\ sdLog' = Append(sdLog, DigestCall(date, ids, kt, summary, outcome,
                                         in_run))

\* main.py lines 107-118: the digest of the run.  build_digest_summary is
\* called outside any try: its TypeError ends the process.
Aggregate(outcome) ==
    /\ pc = "aggregate"
    /\ IF processed_articles = <<>>
       THEN /\ pc' = "done"
            /\ exitStatus' = 0
            /\ UNCHANGED <<digests, nextDigestId, sdLog>>
       ELSE IF SummaryRaises(processed_articles)
       THEN /\ pc' = "crashed"
            /\ exitStatus' = 1
            /\ UNCHANGED <<digests, nextDigestId, sdLog>>
       ELSE /\ save_digest(today, build_digest_summary(processed_articles),
                           article_ids, NoKeyTopics, outcome, TRUE)
            /\ pc' = "done"
            /\ exitStatus' = 0
    /\ ProcessExit
    /\ UNCHANGED <<articles, nextArticleId, env, today, now, runNo,
                   directCalls, runLog>>
    /\ UNCHANGED tagVars

KeyTopicChoices == {NoKeyTopics, [given |-> TRUE, topics |-> <<"ai">>]}

\* db.py save_digest invoked by another caller than main, between runs.
DirectSaveDigest(date, ids, kt, outcome) ==
    /\ Stopped
    /\ directCalls < MaxDirectCalls
    /\ directCalls' = directCalls + 1
    /\ save_digest(date, <<>>, ids, kt, outcome, FALSE)
    /\ UNCHANGED <<articles, nextArticleId, procVars, timeVars, runNo,
                   runLog, cur, callLog, anLog>>
    /\ UNCHANGED tagVars


Feeds == SeqsUpTo(Urls, MaxFeedLen)

\* The pipeline: runs of main() one after the other.  The clock advances by
\* the sleeps of the analyzer only, and an external call answers or fails
\* for good: the retries of a call are those of SpecRun.
Next ==
    \/ \E e \in Envs, entries \in Feeds, fo \in {"ok", "error"},
          uo \in {"ok", "error"}, d \in Dates :
          Start(e, entries, fo, uo, d)
    \/ \E co \in ContentOutcomes, mo \in CommentOutcomes : Enrich(co, mo, 0)
    \/ AnalyzeEnter
    \/ WaitForRateLimit(0)
    \/ \E out \in {"ok", "other"} : GenerateContent(out, 0, 0)
    \/ \E out \in SaveOutcomes : SaveArticle(out)
    \/ \E out \in DigestOutcomes : Aggregate(out)

Spec == Init /\ [][Next]_vars

\* One run of main(), with the time the steps take left open: the scraping
\* of an item, an external call, and how long a sleep oversleeps.
StepDelays == {0, MaxStepDelay}

NextRun ==
    \/ \E e \in Envs, entries \in Feeds, fo \in {"ok", "error"},
          uo \in {"ok", "error"} :
          runNo = 0 /\ Start(e, entries, fo, uo, today)
    \/ \E co \in ContentOutcomes, mo \in CommentOutcomes,
          delay \in StepDelays : Enrich(co, mo, delay)
    \/ AnalyzeEnter
    \/ \E o \in 0..MaxOvershoot : WaitForRateLimit(o)
    \/ \E out \in CallOutcomes, dur \in 0..MaxCallDuration,
          o \in 0..MaxOvershoot : GenerateContent(out, dur, o)
    \/ \E out \in SaveOutcomes : SaveArticle(out)
    \/ \E out \in DigestOutcomes : Aggregate(out)

SpecRun == Init /\ [][NextRun]_vars

\* save_digest invoked again and again on the digest table.
NextDigest ==
    \E d \in Dates, ids \in SeqsUpTo(1..MaxDirectId, 2) \ {<<>>},
       kt \in KeyTopicChoices, out \in DigestOutcomes :
       DirectSaveDigest(d, ids, kt, out)

SpecDigest == Init /\ [][NextDigest]_vars

\* extract_tags_from_analysis on a text.
ExtractTags ==
    /\ ~tag_output.done
    /\ tag_output' = [done |-> TRUE,
                      tags |-> extract_tags_from_analysis(tag_input)]
    /\ UNCHANGED <<storeVars, procVars, timeVars, histVars, tag_input>>

\* The texts it is tried on: a line, then maybe the marker, maybe an
\* opening bracket, up to MaxTokens tokens between commas, maybe a closing
\* bracket, and maybe one more line.
TagTokens == {<<"a">>, <<"a", "b">>, <<" ", "'", "c", "d", "'">>}

RECURSIVE Join(_, _)
Join(parts, sep) ==
    IF parts = <<>> THEN <<>>
    ELSE IF Len(parts) = 1 THEN parts[1]
    ELSE parts[1] \o <<sep>> \o Join(Tail(parts), sep)

TagTexts ==
    {<<"a", "b", NL>>
     \o (IF marker THEN <<MARKER, " ">> ELSE <<>>)
     \o (IF open THEN <<"[">> ELSE <<>>)
     \o Join(tokens, ",")
     \o (IF close THEN <<"]">> ELSE <<>>)
     \o rest :
        marker \in BOOLEAN, open \in BOOLEAN, close \in BOOLEAN,
        tokens \in SeqsUpTo(TagTokens, MaxTokens),
        rest \in {<<>>, <<NL, "a", "b">>}}

InitTags ==
    /\ PipelineInit
    /\ tag_input \in TagTexts
    /\ tag_output = NotExtracted

NextTags == ExtractTags

SpecTags == InitTags /\ [][NextTags]_vars

----------------------------------------------------------------------------
\* The last two save_digest invocations.
Last == sdLog[Len(sdLog)]
Previous == sdLog[Len(sdLog) - 1]

\* C1: the digest table holds at most one row per calendar-day period of
\* the owner: no two rows with different ids have the same period.
C1_OneDigestPerPeriod ==
    \A r1, r2 \in digests :
        r1.period_start = r2.period_start => r1.id = r2.id

\* A second run of the same day has found the day's row and updated it.
C1_Witness ==
    /\ Len(sdLog) = 2
    /\ Previous.ok /\ Last.ok /\ Last.found
    /\ Previous.date = Last.date
    /\ Cardinality(digests) = 1

\* C2: no two article rows have the same link, whatever the feeds list.
C2_UniqueLinks ==
    \A r1, r2 \in articles : r1.url = r2.url => r1.id = r2.id

\* C3: a second run against the unchanged feed inserts no article.  Stated
\* for the case in which the first run inserted every item of the feed.
C3_SecondRunInsertsNothing ==
    (/\ Len(runLog) = 2
     /\ runLog[1].feed = runLog[2].feed
     /\ Len(runLog[1].inserted) = Len(runLog[1].feed))
    => runLog[2].inserted = <<>>

\* C4: after two save_digest invocations for the same period that both
\* returned True, the period's article_ids have no duplicate and are, as a
\* set, the ids stored before the first invocation and the ids passed in
\* both.
C4_MergeIsUnion ==
    (/\ Len(sdLog) >= 2
     /\ Previous.date = Last.date
     /\ Previous.ok /\ Last.ok)
    => /\ NoDuplicates(StoredIds(digests, Last.date))
       /\ SeqToSet(StoredIds(digests, Last.date)) =
              SeqToSet(Previous.before) \cup SeqToSet(Previous.ids)
                  \cup SeqToSet(Last.ids)

\* Two invocations with overlapping, different id lists on a period that
\* already had ids stored.
C4_Witness ==
    /\ Len(sdLog) = 3
    /\ Previous.date = Last.date
    /\ Previous.ok /\ Last.ok
    /\ Previous.before # <<>>
    /\ Previous.ids = <<1, 2>>
    /\ Last.ids = <<2, 2>>

\* C5: two consecutive external calls of a process start at least
\* 60 / REQUESTS_PER_MINUTE = 6 seconds apart, across items and retries.
C5_Pacing ==
    callLog.n >= 2 => callLog.last - callLog.prev >= 6

\* The second of two calls came after a sleep of _wait_for_rate_limit, right
\* at the floor.
C5_Witness ==
    /\ callLog.n >= 2
    /\ callLog.last - callLog.prev = 6
    /\ cur.n = 2

\* C6: an analyze call whose every attempt failed with a retryable error has
\* made exactly 3 external calls, slept 10 then 20 seconds between them,
\* and returned None.
C6_BackoffBound ==
    (/\ pc = "save"
     /\ anLog.outcomes # <<>>
     /\ \A i \in 1..Len(anLog.outcomes) :
            anLog.outcomes[i] \in {"quota_exceeded", "rate_limited"})
    => /\ anLog.calls = 3
       /\ anLog.backoffs = <<10, 20>>
       /\ analysis = NoneVal

C6_Witness ==
    /\ pc = "save"
    /\ anLog.outcomes = <<"quota_exceeded", "rate_limited", "quota_exceeded">>
    /\ anLog.calls = 3

\* C7 as stated: an analyze call that met a non-retryable failure has made
\* exactly one external call, on whichever attempt the failure came.
C7_ExactlyOneCall ==
    (/\ pc = "save"
     /\ \E i \in 1..Len(anLog.outcomes) : anLog.outcomes[i] = "other")
    => anLog.calls = 1 /\ analysis = NoneVal

\* C7 amended: a non-retryable failure is the last external call of its
\* analyze call, which returns None: the calls made are as many as the
\* attempt on which the failure came.
C7_NoRetryAfterOther ==
    \A i \in 1..Len(anLog.outcomes) :
        anLog.outcomes[i] = "other"
        => /\ i = Len(anLog.outcomes)
           /\ anLog.calls = i
           /\ pc = "save"
           /\ analysis = NoneVal

\* A non-retryable failure on the second attempt.
C7_Witness ==
    /\ pc = "save"
    /\ anLog.outcomes = <<"rate_limited", "other">>

\* C8: an item whose analysis ended in failure (None) is dropped: no row is
\* inserted for it and it is not in the lists kept for the digest.
C8_FailedAnalysisDropped ==
    /\ (cur.analyzed /\ cur.analysis = NoneVal /\ pc \notin {"wait", "call"})
           => cur.save_calls = 0 /\ cur.article_id = 0
    /\ \A r \in articles : r.summary # NoneVal
    /\ \A i \in 1..Len(processed_articles) :
           processed_articles[i].analysis # NoneVal

\* C9: a run started with a required variable missing ends in Init with a
\* non-zero status and leaves the store alone.
C9_MissingConfigIsFatal ==
    (runNo >= 1 /\ \E v \in DOMAIN env : ~env[v])
    => /\ pc = "exit1"
       /\ exitStatus # 0
       /\ articles = {}
       /\ digests = {}

\* C10: an item whose content extraction gave None is not analyzed and not
\* inserted, and the loop goes on with the next item.
C10_SkipOnNullContent ==
    /\ (cur.n > 0 /\ cur.content = NoneVal)
           => /\ ~cur.analyzed
              /\ cur.save_calls = 0
              /\ cur.article_id = 0
              /\ \/ pc = "item" /\ idx = cur.n + 1
                 \/ pc = "aggregate" /\ cur.n = Len(new_articles)
    /\ pc \in {"analyze", "wait", "call", "save"} => cur.content # NoneVal
    /\ \A r \in articles : r.content # NoneVal

\* The first of two items was skipped for its content and the loop is at
\* the second.
C10_Witness ==
    /\ cur.n = 1
    /\ cur.content = NoneVal
    /\ pc = "item"
    /\ idx = 2
    /\ callLog.n = 0

\* The run of the process: the last entry of the run log.
ThisRun == runLog[Len(runLog)]

\* C11: a run that persisted an article invokes save_digest exactly once,
\* after the item loop, with exactly the ids of the rows the run inserted;
\* while the loop is going no save_digest is invoked.
C11_OneAggregationAfterLoop ==
    /\ pc \in {"item", "analyze", "wait", "call", "save", "aggregate"}
           => sdLog = <<>>
    /\ (pc \in {"done", "crashed"} /\ ThisRun.inserted # <<>>)
           => /\ Len(sdLog) = 1
              /\ sdLog[1].in_run
              /\ sdLog[1].ids = ThisRun.inserted

\* C12: when save_article fails for an item, the item joins neither the
\* ids nor the blocks of the run's digest (the ids are exactly those of the
\* rows inserted, one block per id), the loop moves on to the next item,
\* and save_article is invoked at most once per item.
C12_FailedSaveExcluded ==
    /\ cur.save_calls <= 1
    /\ pc \in {"item", "analyze", "wait", "call", "save", "aggregate"}
           => /\ article_ids = ThisRun.inserted
              /\ Len(processed_articles) = Len(article_ids)
    /\ (cur.save_calls = 1 /\ cur.article_id = 0)
           => /\ pc \in {"item", "aggregate"}
              /\ idx = cur.n + 1
    /\ \A i \in 1..Len(sdLog) : sdLog[i].in_run => 0 \notin SeqToSet(sdLog[i].ids)

\* The first item's insert failed with a second item still to come.
C12_Witness ==
    /\ pc = "item"
    /\ cur.n = 1
    /\ cur.save_calls = 1
    /\ cur.article_id = 0
    /\ cur.analysis = TEXT

\* C13: a run that got past the configuration check never ends otherwise
\* than done with exit status 0, whatever the outcomes of its items, the
\* digest step included.
C13_StartedRunEndsDone ==
    (Len(runLog) >= 1 /\ ThisRun.started /\ Stopped)
    => (pc = "done" /\ exitStatus = 0)

\* The run found nothing to do: the fetch of the feed failed, the feed had
\* no entry, or every link of the feed was in the answer of the ledger.
NothingNew ==
    \/ ~ThisRun.fetched
    \/ ThisRun.feed = <<>>
    \/ SeqToSet(ThisRun.feed) \subseteq ThisRun.known

\* C14: a started run that found nothing new is done with exit status 0
\* and has enriched no item, made no summarizer call, inserted no row and
\* invoked no save_digest.
C14_NothingNewEndsClean ==
    (Len(runLog) >= 1 /\ ThisRun.started /\ NothingNew)
    => /\ pc = "done"
       /\ exitStatus = 0
       /\ cur = NoItem
       /\ callLog = NoCalls
       /\ ThisRun.inserted = <<>>
       /\ \A i \in 1..Len(sdLog) : sdLog[i].run # runNo

\* A second run whose feed was fetched and held known links only.
C14_Witness ==
    /\ Len(runLog) = 2
    /\ ThisRun.started /\ ThisRun.fetched
    /\ ThisRun.feed # <<>>
    /\ SeqToSet(ThisRun.feed) \subseteq ThisRun.known
    /\ pc = "done"

\* The digest row of the date of the last save_digest invocation.
LastRow == FirstRow(Existing(digests, Last.date))

\* C15: after a save_digest that updated the row of its date, the row's
\* key topics are those supplied, and those stored before the call when
\* none was supplied.
C15_KeyTopicsKeptUnlessSupplied ==
    (Len(sdLog) >= 1 /\ Last.ok /\ Last.found)
    => LastRow.key_topics = IF Last.key_topics.given
                            THEN Last.key_topics.topics
                            ELSE Last.kt_before

\* The links stored before the run of the process began.
KnownBefore ==
    {r.url : r \in {a \in articles : a.id \notin SeqToSet(ThisRun.inserted)}}

\* C16: a run never inserts a row for a link that was stored before the
\* run began, also when its ledger query failed.
C16_NoReprocessingOfStored ==
    Len(runLog) >= 1
    => \A r \in articles :
          r.id \in SeqToSet(ThisRun.inserted) => r.url \notin KnownBefore

\* C17: when a run is done, the id of every article it inserted is among
\* the article ids of the digest row of the run's date.
C17_InsertedIdsInDigest ==
    (Len(runLog) >= 1 /\ pc = "done")
    => SeqToSet(ThisRun.inserted) \subseteq
           SeqToSet(StoredIds(digests, ThisRun.date))

\* C18: an item with content whose comments came back empty (none, or the
\* fetch failed) goes to the summarizer with its content and no comment,
\* is not skipped, and when its insert returns an id the row holds its
\* link, content and analysis.
C18_NoCommentsNotFatal ==
    (cur.n > 0 /\ cur.content = TEXT /\ cur.comments = 0)
    => /\ pc = "analyze" \/ cur.analyzed
       /\ pc \in {"item", "aggregate"} => cur.save_calls = 1
       /\ cur.article_id # 0
              => [id |-> cur.article_id, url |-> cur.link,
                  content |-> TEXT, summary |-> cur.analysis] \in articles

\* An item without comments was analyzed and its row inserted.
C18_Witness ==
    /\ cur.n > 0
    /\ cur.content = TEXT
    /\ cur.comments = 0
    /\ cur.analysis = TEXT
    /\ cur.article_id # 0
    /\ \E r \in articles : r.id = cur.article_id /\ r.summary = TEXT

\* C19: the tags returned are at most 5, none is empty or of one
\* character, none are returned for a text without marker, and for a
\* marker with a bracketed list the tags are those of the list between
\* the brackets, so that no tag holds a bracket.
C19_TagExtraction ==
    tag_output.done
    => LET tags == tag_output.tags
           bracketed == SearchBracket(tag_input)
       IN  /\ Len(tags) <= 5
           /\ \A i \in 1..Len(tags) : Len(tags[i]) > 1
           /\ MARKER \notin SeqToSet(tag_input) => tags = <<>>
           /\ bracketed.found
                  => /\ tags = TagsOf(bracketed.group)
                     /\ \A i \in 1..Len(tags) :
                            SeqToSet(tags[i]) \cap {"[", "]"} = {}

\* C20: after a save_digest that updated the row of its date, the row's
\* summary is the summary passed to the call, nothing of the former text
\* kept, and every article id stored before the call is still in the row.
C20_SummaryReplacedIdsKept ==
    (Len(sdLog) >= 1 /\ Last.ok /\ Last.found)
    => /\ LastRow.summary = Last.summary
       /\ SeqToSet(Last.before) \subseteq SeqToSet(LastRow.article_ids)

\* A second run of the day replaced the summary of the first by another.
C20_Witness ==
    /\ Len(sdLog) = 2
    /\ Previous.ok /\ Last.ok /\ Last.found
    /\ Previous.in_run /\ Last.in_run
    /\ Previous.summary # <<>>
    /\ Previous.summary # Last.summary
    /\ Last.before # <<>>
    /\ LastRow.summary = Last.summary

\* C21 as stated: the timestamp recorded for an attempt is not earlier
\* than the moment the external call of the attempt returned.
C21_StampAfterCall ==
    callLog.n >= 1 => callLog.stamp >= callLog.returned

\* C21 amended: the timestamp is written after the sleep and before the
\* external call.  The one recorded for an attempt is the moment its call
\* was issued, not later than the moment the call returned, and nothing
\* writes it again until the wait of the next attempt.
C21_StampBeforeCall ==
    callLog.n >= 1
    => /\ callLog.stamp = callLog.last
       /\ callLog.stamp <= callLog.returned
       /\ pc # "call" => last_request_time = callLog.stamp

\* A second call, issued after a sleep, that took time to return.
C21_Witness ==
    /\ callLog.n >= 2
    /\ callLog.last - callLog.prev = 6
    /\ callLog.returned > callLog.stamp
    /\ pc = "save"

\* C22: an analyze call makes at most 3 external calls and has returned
\* after the third; a call that succeeds on attempt k is the last one, so
\* that k calls were made, k - 1 backoffs slept, none after the success,
\* and the result is the text of that response.
C22_StopsAtFirstSuccess ==
    /\ anLog.calls <= 3
    /\ anLog.calls = Len(anLog.outcomes)
    /\ anLog.calls = 3 => pc = "save"
    /\ \A k \in 1..Len(anLog.outcomes) :
           anLog.outcomes[k] = "ok"
           => /\ k = Len(anLog.outcomes)
              /\ pc = "save"
              /\ Len(anLog.backoffs) = k - 1
              /\ now = callLog.returned
              /\ analysis = TEXT
              /\ cur.analysis = TEXT

\* Success on the third attempt, after two retryable failures.
C22_Witness ==
    /\ pc = "save"
    /\ anLog.outcomes = <<"quota_exceeded", "rate_limited", "ok">>
    /\ anLog.backoffs = <<10, 20>>
    /\ analysis = TEXT
====
